---- MODULE Spec2Model ----
(***************************************************************************)
(* Model of the Hora Varga chart component                                 *)
(* (src/src/components/HoraVargaChart.tsx).                                *)
(*                                                                         *)
(* Strings that are only compared (signs, planet names) are TLA+ strings.  *)
(* A degree field is a string the code parses, so it is a sequence of      *)
(* one-character strings and parseFloat is computed on its characters.     *)
(* A JavaScript number is a record: NaN, +Infinity, -Infinity, or the      *)
(* finite decimal n / 10^k.                                                *)
(***************************************************************************)
EXTENDS Integers, Sequences, FiniteSets, TLC

VARIABLES
    planetPositions,    \* useState<PlanetPosition[]>
    lagna,              \* useState<LagnaPosition>
    horaChart,          \* useState<HoraChartEntry[]>
    selectedHoraRashi,  \* useState<string | null>
    fontLoaded,         \* useState(false)
    fontPc,             \* position of the async loadFont started on mount
    fontStored,         \* localStorage has the item 'tamilFontData'
    events,             \* number of user events handled so far
    call                \* one direct call of calculateHoraPlacement

vars == <<planetPositions, lagna, horaChart, selectedHoraRashi,
          fontLoaded, fontPc, fontStored, events, call>>

uiVars == <<planetPositions, lagna, horaChart, selectedHoraRashi, events>>
fontVars == <<fontLoaded, fontPc, fontStored>>

----------------------------------------------------------------------------
(* Bounds of the model *)

\* The planet list is not grown beyond this many entries.
MaxPlanets == 2

\* At most this many user events (edits, button presses, row clicks).
MaxEvents == 6

----------------------------------------------------------------------------
(* Module-level constant tables *)

RASHI_LIST ==
    << "மேஷம்", "ரிஷபம்", "மிதுனம்", "கடகம்",
       "சிம்மம்", "கன்னி", "துலாம்", "விருச்சிகம்",
       "தனுசு", "மகரம்", "கும்பம்", "மீனம்" >>

PLANET_LIST ==
    << "சூரியன்", "சந்திரன்", "செவ்வாய்",
       "புதன்", "குரு", "சுக்கிரன்",
       "சனி", "ராகு", "கேது" >>

\* Variant: the table without the record of the male hora.
HORA_INTERPRETATIONS_female_only ==
    [ k \in {"கடகம்"} |->
        [ title |-> "கடகம் (Cancer) - பெண் ஹோரா",
          description |-> "பெண் ஹோரா நிலை.",
          keyQualities |-> << "உணர்ச்சிகரமான மனப்பான்மை" >> ] ]

HORA_INTERPRETATIONS ==
    [ k \in {"கடகம்", "சிம்மம்"} |->
        IF k = "கடகம்"
        THEN [ title |-> "கடகம் (Cancer) - பெண் ஹோரா",
               description |-> "பெண் ஹோரா நிலை. உணர்வுகளின் ஆழம், பாதுகாப்பு மற்றும் குடும்ப தொடர்புகளைக் குறிக்கிறது.",
               keyQualities |-> << "உணர்ச்சிகரமான மனப்பான்மை",
                                   "பரிவுடன் கூடிய அணுகுமுறை",
                                   "குடும்ப மதிப்புகளுக்கு முக்கியத்துவம்" >> ]
        ELSE [ title |-> "சிம்மம் (Leo) - ஆண் ஹோரா",
               description |-> "ஆண் ஹோரா நிலை. தன்னம்பிக்கை, தலைமை மற்றும் படைப்பாற்றலைக் குறிக்கிறது.",
               keyQualities |-> << "வலிமையான தன்னம்பிக்கை",
                                   "தலைமைத்துவ இயல்பு",
                                   "திறமையான படைப்பாற்றல்" >> ] ]

\* The label generateHoraChart gives the ascendant row.
LagnaLabel == "லக்நம்"

\* The value of selectedHoraRashi before any row is clicked.
Null == "null"

Range(s) == { s[i] : i \in 1..Len(s) }

----------------------------------------------------------------------------
(* JavaScript numbers *)

NaN == [kind |-> "NaN", n |-> 0, k |-> 0]
PosInfinity == [kind |-> "+Infinity", n |-> 0, k |-> 0]
NegInfinity == [kind |-> "-Infinity", n |-> 0, k |-> 0]

RECURSIVE Pow10(_)
Pow10(k) == IF k = 0 THEN 1 ELSE 10 * Pow10(k - 1)

\* The finite number n / 10^k, without trailing zeros in the fraction.
RECURSIVE Finite(_, _)
Finite(n, k) ==
    IF k > 0 /\ n % 10 = 0
    THEN Finite(n \div 10, k - 1)
    ELSE [kind |-> "finite", n |-> n, k |-> k]

\* x <= c for a number x and an integer literal c; false for NaN.
NumLeq(x, c) ==
    CASE x.kind = "NaN" -> FALSE
      [] x.kind = "+Infinity" -> FALSE
      [] x.kind = "-Infinity" -> TRUE
      [] OTHER -> x.n <= c * Pow10(x.k)

\* c <= x for an integer literal c and a number x; false for NaN.
NumGeq(x, c) ==
    CASE x.kind = "NaN" -> FALSE
      [] x.kind = "+Infinity" -> TRUE
      [] x.kind = "-Infinity" -> FALSE
      [] OTHER -> c * Pow10(x.k) <= x.n

----------------------------------------------------------------------------
(* parseFloat, on strings over digits, ".", "+", "-", " " and "x".  The    *)
(* alphabet has no "e", "E" or "I", so the exponent part and the literal   *)
(* Infinity of StrDecimalLiteral cannot occur.                             *)

Digits == {"0", "1", "2", "3", "4", "5", "6", "7", "8", "9"}

DigitVal(c) ==
    CASE c = "0" -> 0 [] c = "1" -> 1 [] c = "2" -> 2 [] c = "3" -> 3
      [] c = "4" -> 4 [] c = "5" -> 5 [] c = "6" -> 6 [] c = "7" -> 7
      [] c = "8" -> 8 [] c = "9" -> 9

\* First index >= i of s that holds no white space (Len(s) + 1 if none).
RECURSIVE SkipSpaces(_, _)
SkipSpaces(s, i) ==
    IF i <= Len(s) /\ s[i] = " " THEN SkipSpaces(s, i + 1) ELSE i

\* First index >= i of s that holds no digit (Len(s) + 1 if none).
RECURSIVE DigitRunEnd(_, _)
DigitRunEnd(s, i) ==
    IF i <= Len(s) /\ s[i] \in Digits THEN DigitRunEnd(s, i + 1) ELSE i

\* The value of the digits s[i..j-1], continuing from acc.
RECURSIVE DigitsValue(_, _, _, _)
DigitsValue(s, i, j, acc) ==
    IF i >= j THEN acc ELSE DigitsValue(s, i + 1, j, 10 * acc + DigitVal(s[i]))

\* The number of the longest prefix of the trimmed string that is a decimal
\* literal; NaN if no prefix is one.
parseFloat(s) ==
    LET i0 == SkipSpaces(s, 1)
        signed == i0 <= Len(s) /\ s[i0] \in {"+", "-"}
        neg == signed /\ s[i0] = "-"
        i1 == IF signed THEN i0 + 1 ELSE i0
        i2 == DigitRunEnd(s, i1)
        hasDot == i2 <= Len(s) /\ s[i2] = "."
        i3 == IF hasDot THEN DigitRunEnd(s, i2 + 1) ELSE i2
        nInt == i2 - i1
        nFrac == IF hasDot THEN i3 - (i2 + 1) ELSE 0
        mag == DigitsValue(s, i1, i2, 0) * Pow10(nFrac)
                 + (IF hasDot THEN DigitsValue(s, i2 + 1, i3, 0) ELSE 0)
    IN  IF nInt + nFrac = 0
        THEN NaN
        ELSE Finite(IF neg THEN 0 - mag ELSE mag, nFrac)

\* degree || '0': the empty string is falsy.
OrZero(degree) == IF degree = <<>> THEN <<"0">> ELSE degree

----------------------------------------------------------------------------
(* Helper function to determine Hora placement *)

\* Variant: the list of male signs with its last sign left out.
maleRashis_short == {"மேஷம்", "மிதுனம்", "சிம்மம்", "துலாம்", "தனுசு"}

maleRashis == {"மேஷம்", "மிதுனம்", "சிம்மம்", "துலாம்", "தனுசு", "கும்பம்"}

\* Variant: the boundary test written with < instead of <=.
calculateHoraPlacement_strict(rashi, degree) ==
    LET isMaleSign == rashi \in maleRashis
        below == NumLeq(degree, 15) /\ degree # Finite(15, 0)
    IN  IF isMaleSign
        THEN (IF below THEN "சிம்மம்" ELSE "கடகம்")
        ELSE (IF below THEN "கடகம்" ELSE "சிம்மம்")

\* Variant: the two results of the male branch exchanged.
calculateHoraPlacement_swapped(rashi, degree) ==
    LET isMaleSign == rashi \in maleRashis
    IN  IF isMaleSign
        THEN (IF NumLeq(degree, 15) THEN "கடகம்" ELSE "சிம்மம்")
        ELSE (IF NumLeq(degree, 15) THEN "கடகம்" ELSE "சிம்மம்")

\* Variant: a sign that is not in RASHI_LIST is handed back unclassified.
calculateHoraPlacement_unlisted(rashi, degree) ==
    LET isMaleSign == rashi \in maleRashis
    IN  IF rashi \notin Range(RASHI_LIST)
        THEN rashi
        ELSE IF isMaleSign
        THEN (IF NumLeq(degree, 15) THEN "சிம்மம்" ELSE "கடகம்")
        ELSE (IF NumLeq(degree, 15) THEN "கடகம்" ELSE "சிம்மம்")

calculateHoraPlacement(rashi, degree) ==
    LET isMaleSign == rashi \in maleRashis
    IN  IF isMaleSign
        THEN (IF NumLeq(degree, 15) THEN "சிம்மம்" ELSE "கடகம்")
        ELSE (IF NumLeq(degree, 15) THEN "கடகம்" ELSE "சிம்மம்")

----------------------------------------------------------------------------
(* Inputs the model draws *)

\* The options of the two sign selects (options={RASHI_LIST}) that the model
\* picks: a male sign, and a female sign that is also a result.  All twelve
\* signs are arguments under PureSpec.
SignInputs == {RASHI_LIST[1], RASHI_LIST[4]}

\* The option of the planet select (options={PLANET_LIST}) that the model
\* picks; the code only tests a planet name for being empty.
PlanetInputs == {PLANET_LIST[1]}

\* The values of e.target.value of a degree field that the model picks:
\* absent, at the boundary, out of range, and no number.  The handlers
\* store the value as it comes; min and max of the input element do not
\* change it.
DegreeInputs ==
    { <<>>,
      <<"1", "5">>,
      <<"4", "5">>,
      <<"x">> }

\* Arguments of a direct call of calculateHoraPlacement.
SignArgs == Range(RASHI_LIST) \cup {"", "Ophiuchus"}

NumberArgs ==
    { Finite(n, 0) : n \in {-5, 0, 10, 14, 15, 16, 20, 30, 45} }
      \cup { Finite(149, 1), Finite(151, 1), Finite(1501, 2) }
      \cup { NaN, PosInfinity, NegInfinity }

NoCall == [rashi |-> "", degree |-> NaN, result |-> Null]

----------------------------------------------------------------------------
(* Initial state: the useState initial values, loadFont started *)

Init ==
    /\ planetPositions = << [planetName |-> "", rashi |-> "", degree |-> <<>>] >>
    /\ lagna = [rashi |-> "", degree |-> <<>>]
    /\ horaChart = <<>>
    /\ selectedHoraRashi = Null
    /\ fontLoaded = FALSE
    /\ fontPc = "fetch"
    /\ fontStored = FALSE
    /\ events = 0
    /\ call = NoCall

----------------------------------------------------------------------------
(* loadFont *)

\* await fetch(fontUrl) fulfils.
FetchFulfilled ==
    /\ fontPc = "fetch"
    /\ fontPc' = "arrayBuffer"
    /\ UNCHANGED <<fontLoaded, fontStored, uiVars, call>>

\* await fetch(fontUrl) rejects: control passes to the catch block.
FetchRejected ==
    /\ fontPc = "fetch"
    /\ fontPc' = "catch"
    /\ UNCHANGED <<fontLoaded, fontStored, uiVars, call>>

\* await fontResponse.arrayBuffer() fulfils.
ArrayBufferFulfilled ==
    /\ fontPc = "arrayBuffer"
    /\ fontPc' = "store"
    /\ UNCHANGED <<fontLoaded, fontStored, uiVars, call>>

\* await fontResponse.arrayBuffer() rejects.
ArrayBufferRejected ==
    /\ fontPc = "arrayBuffer"
    /\ fontPc' = "catch"
    /\ UNCHANGED <<fontLoaded, fontStored, uiVars, call>>

\* localStorage.setItem(...) returns; setFontLoaded(true).
StoreFont ==
    /\ fontPc = "store"
    /\ fontStored' = TRUE
    /\ fontLoaded' = TRUE
    /\ fontPc' = "done"
    /\ UNCHANGED <<uiVars, call>>

\* arrayBufferToBase64 or localStorage.setItem throws.
StoreThrows ==
    /\ fontPc = "store"
    /\ fontPc' = "catch"
    /\ UNCHANGED <<fontLoaded, fontStored, uiVars, call>>

\* Variant: the catch block only logs.
CatchFallback_log_only ==
    /\ fontPc = "catch"
    /\ fontPc' = "done"
    /\ UNCHANGED <<fontLoaded, fontStored, uiVars, call>>

\* catch (error) { console.error(...); setFontLoaded(true); }
CatchFallback ==
    /\ fontPc = "catch"
    /\ fontLoaded' = TRUE
    /\ fontPc' = "done"
    /\ UNCHANGED <<fontStored, uiVars, call>>

LoadFontStep ==
    \/ FetchFulfilled
    \/ FetchRejected
    \/ ArrayBufferFulfilled
    \/ ArrayBufferRejected
    \/ StoreFont
    \/ StoreThrows
    \/ CatchFallback

----------------------------------------------------------------------------
(* Form editing *)

\* One more user event is handled.
UserEvent ==
    /\ events < MaxEvents
    /\ events' = events + 1

\* onChange of the Lagna sign select.
SetLagnaRashi(value) ==
    /\ UserEvent
    /\ lagna' = [lagna EXCEPT !.rashi = value]
    /\ UNCHANGED <<planetPositions, horaChart, selectedHoraRashi, fontVars, call>>

\* onChange of the Lagna degree input.
SetLagnaDegree(value) ==
    /\ UserEvent
    /\ lagna' = [lagna EXCEPT !.degree = value]
    /\ UNCHANGED <<planetPositions, horaChart, selectedHoraRashi, fontVars, call>>

addPlanetInput ==
    /\ UserEvent
    /\ Len(planetPositions) < MaxPlanets
    /\ planetPositions' =
         Append(planetPositions, [planetName |-> "", rashi |-> "", degree |-> <<>>])
    /\ UNCHANGED <<lagna, horaChart, selectedHoraRashi, fontVars, call>>

\* Variant: the entry is replaced by one holding the field alone, without
\* the spread of the old entry.
UpdatedPositions_no_spread(prev, index, field, value) ==
    [prev EXCEPT ![index] =
        [[planetName |-> "", rashi |-> "", degree |-> <<>>] EXCEPT ![field] = value]]

\* The list after updatedPositions[index] = {...updatedPositions[index], [field]: value}.
UpdatedPositions(prev, index, field, value) ==
    [prev EXCEPT ![index] = [@ EXCEPT ![field] = value]]

updatePlanetInput(index, field, value) ==
    /\ UserEvent
    /\ planetPositions' = UpdatedPositions(planetPositions, index, field, value)
    /\ UNCHANGED <<lagna, horaChart, selectedHoraRashi, fontVars, call>>

\* The three onChange handlers of one planet row.
EditPlanet ==
    \E index \in 1..Len(planetPositions) :
        \/ \E value \in PlanetInputs : updatePlanetInput(index, "planetName", value)
        \/ \E value \in SignInputs : updatePlanetInput(index, "rashi", value)
        \/ \E value \in DegreeInputs : updatePlanetInput(index, "degree", value)

----------------------------------------------------------------------------
(* Chart assembly *)

\* Variant: the filter tests the planet name only.
IsComplete_name_only(p) == p.planetName # ""

\* p => p.planetName && p.rashi
IsComplete(p) == p.planetName # "" /\ p.rashi # ""

RECURSIVE Filter(_)
Filter(ps) ==
    IF ps = <<>> THEN <<>>
    ELSE (IF IsComplete(Head(ps)) THEN <<Head(ps)>> ELSE <<>>) \o Filter(Tail(ps))

\* The degree handed to calculateHoraPlacement: parseFloat(degree || '0').
ParsedDegree(degree) == parseFloat(OrZero(degree))

\* planet => ({...planet, horaRashi: calculateHoraPlacement(...)})
PlanetRow(planet) ==
    [ planetName |-> planet.planetName,
      rashi |-> planet.rashi,
      degree |-> planet.degree,
      horaRashi |-> calculateHoraPlacement(planet.rashi, ParsedDegree(planet.degree)) ]

LagnaRows(l) ==
    IF l.rashi # ""
    THEN << [ planetName |-> LagnaLabel,
              rashi |-> l.rashi,
              degree |-> l.degree,
              horaRashi |-> calculateHoraPlacement(l.rashi, ParsedDegree(l.degree)) ] >>
    ELSE <<>>

\* Variant: the ascendant row spread after the planet rows.
ComputedChart_lagna_last(l, ps) ==
    LET complete == Filter(ps)
    IN  [ i \in 1..Len(complete) |-> PlanetRow(complete[i]) ] \o LagnaRows(l)

ComputedChart(l, ps) ==
    LET complete == Filter(ps)
    IN  LagnaRows(l) \o [ i \in 1..Len(complete) |-> PlanetRow(complete[i]) ]

\* The generate button has no disabled attribute.
GenerateButtonEnabled == TRUE

generateHoraChart ==
    /\ GenerateButtonEnabled
    /\ UserEvent
    /\ horaChart' = ComputedChart(lagna, planetPositions)
    /\ UNCHANGED <<planetPositions, lagna, selectedHoraRashi, fontVars, call>>

----------------------------------------------------------------------------
(* Result table, interpretation panel and export *)

\* Variant: the click stores the row's own sign, not its hora sign.
SelectRow_rashi(index) ==
    /\ UserEvent
    /\ index \in 1..Len(horaChart)
    /\ selectedHoraRashi' = horaChart[index].rashi
    /\ UNCHANGED <<planetPositions, lagna, horaChart, fontVars, call>>

\* onClick of row index of the result table.
SelectRow(index) ==
    /\ UserEvent
    /\ index \in 1..Len(horaChart)
    /\ selectedHoraRashi' = horaChart[index].horaRashi
    /\ UNCHANGED <<planetPositions, lagna, horaChart, fontVars, call>>

\* The export button is rendered and not disabled.
PdfButtonEnabled == Len(horaChart) > 0 /\ fontLoaded

\* {selectedHoraRashi && (...)}: the interpretation panel is rendered.
PanelRendered == selectedHoraRashi # Null /\ selectedHoraRashi # ""

\* The panel reads .title of HORA_INTERPRETATIONS[selectedHoraRashi] with no
\* guard: rendering throws if the table has no such record.
PanelThrows ==
    PanelRendered /\ selectedHoraRashi \notin DOMAIN HORA_INTERPRETATIONS

\* generatePDF writes a document and changes no state of the component.
generatePDF ==
    /\ UserEvent
    /\ PdfButtonEnabled
    /\ UNCHANGED <<planetPositions, lagna, horaChart, selectedHoraRashi, fontVars, call>>

----------------------------------------------------------------------------
(* The component *)

Next ==
    \/ LoadFontStep
    \/ \E value \in SignInputs : SetLagnaRashi(value)
    \/ \E value \in DegreeInputs : SetLagnaDegree(value)
    \/ addPlanetInput
    \/ EditPlanet
    \/ generateHoraChart
    \/ \E index \in 1..Len(horaChart) : SelectRow(index)
    \/ generatePDF

Spec == Init /\ [][Next]_vars

----------------------------------------------------------------------------
(* The component with the scheduling of loadFont's continuations: once an  *)
(* awaited promise has settled the event loop runs what follows it.  The   *)
(* fetch itself has no timeout and need not settle.                        *)

LoadFontContinue ==
    \/ ArrayBufferFulfilled
    \/ ArrayBufferRejected
    \/ StoreFont
    \/ StoreThrows
    \/ CatchFallback

FairSpec == Init /\ [][Next]_vars /\ WF_vars(LoadFontContinue)

----------------------------------------------------------------------------
(* A direct call of calculateHoraPlacement with drawn arguments *)

PureInit ==
    /\ planetPositions = << [planetName |-> "", rashi |-> "", degree |-> <<>>] >>
    /\ lagna = [rashi |-> "", degree |-> <<>>]
    /\ horaChart = <<>>
    /\ selectedHoraRashi = Null
    /\ fontLoaded = FALSE
    /\ fontPc = "fetch"
    /\ fontStored = FALSE
    /\ events = 0
    /\ call \in { [rashi |-> r, degree |-> d, result |-> Null] :
                    r \in SignArgs, d \in NumberArgs }

CallCalculateHoraPlacement ==
    /\ call.result = Null
    /\ call' = [call EXCEPT !.result = calculateHoraPlacement(call.rashi, call.degree)]
    /\ UNCHANGED <<uiVars, fontVars>>

PureSpec == PureInit /\ [][CallCalculateHoraPlacement]_vars

----------------------------------------------------------------------------
(* Vocabulary of the claims *)

\* ClassificationA and ClassificationB of the specification.
Leo == "சிம்மம்"
Cancer == "கடகம்"
HoraRashis == {Cancer, Leo}

\* The signs at positions 1, 3, 5, 7, 9, 11 of RASHI_LIST.
OddSigns == { RASHI_LIST[i] : i \in {1, 3, 5, 7, 9, 11} }

Aries == RASHI_LIST[1]

CallDone == call.result # Null

\* 0 <= x <= 15, and 15 < x <= 30.
InLowerHalf(x) == NumGeq(x, 0) /\ NumLeq(x, 15)
InUpperHalf(x) == x.kind = "finite" /\ ~NumLeq(x, 15) /\ NumLeq(x, 30)

----------------------------------------------------------------------------
(* Claims about calculateHoraPlacement and HORA_INTERPRETATIONS, under     *)
(* PureSpec                                                                *)

\* C1: for each of the 12 signs and every degree the result follows the
\* parity rule: an odd sign gives Leo when degree <= 15 and Cancer otherwise,
\* an even sign gives Cancer when degree <= 15 and Leo otherwise; degree 15
\* is in the <= 15 branch.
C1_ParityRule ==
    (CallDone /\ call.rashi \in Range(RASHI_LIST)) =>
        /\ call.result =
              IF call.rashi \in OddSigns
              THEN (IF NumLeq(call.degree, 15) THEN Leo ELSE Cancer)
              ELSE (IF NumLeq(call.degree, 15) THEN Cancer ELSE Leo)
        /\ call.degree = Finite(15, 0) =>
              call.result = (IF call.rashi \in OddSigns THEN Leo ELSE Cancer)

\* A call with an even sign and degree exactly 15 has returned.
C1_Witness ==
    /\ CallDone
    /\ call.rashi = RASHI_LIST[10]
    /\ call.degree = Finite(15, 0)
    /\ call.result = Cancer

\* C2 as stated: Aries at degree 10 gives ClassificationB (Cancer).
C2_Original ==
    (CallDone /\ call.rashi = Aries /\ call.degree = Finite(10, 0)) =>
        call.result = Cancer

\* C2 amended: Aries at degree 10 gives ClassificationA (Leo), the value of
\* the odd sign, degree <= 15 branch.
C2_AriesTen ==
    (CallDone /\ call.rashi = Aries /\ call.degree = Finite(10, 0)) =>
        call.result = Leo

\* The call with Aries and degree 10 has returned.
C2_Witness ==
    CallDone /\ call.rashi = Aries /\ call.degree = Finite(10, 0)

\* C6: HORA_INTERPRETATIONS has a record for exactly the two classification
\* values, so for every result of calculateHoraPlacement, and each record
\* has a non-empty title, description and list of qualities.
C6_InterpretationsTotal ==
    /\ DOMAIN HORA_INTERPRETATIONS = HoraRashis
    /\ \A k \in DOMAIN HORA_INTERPRETATIONS :
          /\ HORA_INTERPRETATIONS[k].title # ""
          /\ HORA_INTERPRETATIONS[k].description # ""
          /\ Len(HORA_INTERPRETATIONS[k].keyQualities) > 0
    /\ CallDone => call.result \in DOMAIN HORA_INTERPRETATIONS

\* A call has returned Leo, which is looked up.
C6_Witness ==
    /\ CallDone
    /\ call.result = Leo
    /\ call.result \in DOMAIN HORA_INTERPRETATIONS

\* C9: for each of the 12 signs, the result for a degree in (15,30] is the
\* other value than the result for any degree in [0,15], and both are one
\* of the two values.
C9_Inverts ==
    (CallDone /\ call.rashi \in Range(RASHI_LIST) /\ InUpperHalf(call.degree)) =>
        \A d1 \in { d \in NumberArgs : InLowerHalf(d) } :
            /\ calculateHoraPlacement(call.rashi, d1) # call.result
            /\ calculateHoraPlacement(call.rashi, d1) \in HoraRashis
            /\ call.result \in HoraRashis

\* A call with an odd sign and degree 15.01 has returned.
C9_Witness ==
    /\ CallDone
    /\ call.rashi = RASHI_LIST[7]
    /\ call.degree = Finite(1501, 2)
    /\ InUpperHalf(call.degree)

----------------------------------------------------------------------------
(* Claims about the component, under Spec                                  *)

Rows == Range(horaChart)

\* The degree string is absent, or holds no number.
AbsentOrInvalid(degree) == degree = <<>> \/ parseFloat(degree) = NaN

\* 0 <= x <= 30.
InRange(x) == NumGeq(x, 0) /\ NumLeq(x, 30)

\* calculateHoraPlacement returns one of the two designated signs for every
\* sign, listed or not, and every number, NaN and the infinities included.
C3_TotalOnArgs ==
    \A r \in SignArgs, d \in NumberArgs :
        calculateHoraPlacement(r, d) \in HoraRashis

\* C3: calculateHoraPlacement is total with a result among the two
\* designated signs for every argument, and so every row of horaChart has
\* horaRashi among the two.
C3_TwoValued ==
    /\ C3_TotalOnArgs
    /\ \A row \in Rows : row.horaRashi \in HoraRashis

\* horaChart holds a row computed from a degree that is no number and a row
\* computed from a degree above 30.
C3_Witness ==
    /\ \E row \in Rows : parseFloat(row.degree) = NaN
    /\ \E row \in Rows :
          /\ ParsedDegree(row.degree).kind = "finite"
          /\ ~NumLeq(ParsedDegree(row.degree), 30)
    /\ \A row \in Rows : row.horaRashi \in HoraRashis

\* What C4 says of the chart after a step, in terms of the form before it.
C4_Post ==
    LET complete == { i \in 1..Len(planetPositions) :
                        planetPositions[i].planetName # ""
                          /\ planetPositions[i].rashi # "" }
        lagnaRows == { i \in 1..Len(horaChart') :
                         horaChart'[i].planetName = LagnaLabel }
        planetRows == (1..Len(horaChart')) \ lagnaRows
    IN  /\ lagnaRows # {} <=> lagna.rashi # ""
        /\ Cardinality(lagnaRows) <= 1
        /\ Cardinality(planetRows) = Cardinality(complete)
        /\ \A i \in 1..Len(planetPositions) :
              (\E j \in planetRows :
                  /\ horaChart'[j].planetName = planetPositions[i].planetName
                  /\ horaChart'[j].rashi = planetPositions[i].rashi
                  /\ horaChart'[j].degree = planetPositions[i].degree)
                <=> i \in complete
        /\ (lagna.rashi = "" /\ Len(planetPositions) = 1 /\ complete = {})
              => horaChart' = <<>>

\* C4: generateHoraChart puts the ascendant row in the result iff
\* lagna.rashi is non-empty, and a planet entry iff its planetName and its
\* rashi are both non-empty; with no ascendant and a single empty planet
\* entry the result is empty.
C4_FiltersIncomplete == [][generateHoraChart => C4_Post]_vars

\* The chart was generated from the form as it stands: no ascendant, one
\* entry with a name but no sign, and one complete entry, which is the only
\* row.
C4_Witness ==
    /\ lagna.rashi = ""
    /\ Len(planetPositions) = 2
    /\ planetPositions[1].planetName # "" /\ planetPositions[1].rashi = ""
    /\ planetPositions[2].planetName # "" /\ planetPositions[2].rashi # ""
    /\ Len(horaChart) = 1
    /\ horaChart[1].planetName = planetPositions[2].planetName
    /\ horaChart[1].rashi = planetPositions[2].rashi
    /\ horaChart[1].degree = planetPositions[2].degree

C7_Original ==
    \A row \in Rows : InRange(ParsedDegree(row.degree))

\* C10: selectedHoraRashi is null or a key of HORA_INTERPRETATIONS, so the
\* interpretation panel never dereferences a missing record.
C10_SelectionInDomain ==
    /\ selectedHoraRashi = Null \/ selectedHoraRashi \in DOMAIN HORA_INTERPRETATIONS
    /\ ~PanelThrows

\* A row was clicked, and the chart was generated again afterwards from an
\* edited form, so that no row has the selected hora sign any more.
C10_Witness ==
    /\ selectedHoraRashi # Null
    /\ Len(horaChart) > 0
    /\ \A row \in Rows : row.horaRashi # selectedHoraRashi

----------------------------------------------------------------------------
(* Claim about loadFont, under FairSpec                                    *)

\* The fetch has settled, fulfilled or rejected.
FetchSettled == fontPc # "fetch"

\* C8: once the fetch has settled, fontLoaded becomes true whether the fetch
\* or the storing of its result succeeded or threw, and stays true, so the
\* export button is enabled from then on whenever horaChart is non-empty; no
\* step of loadFont changes the form, the chart or the selection; and the
\* generate button is enabled in every state, whatever fontLoaded and the
\* position of loadFont are.
C8_FontNeverGates ==
    /\ FetchSettled ~> fontLoaded
    /\ [][fontLoaded => fontLoaded']_vars
    /\ FetchSettled ~> [](Len(horaChart) > 0 => PdfButtonEnabled)
    /\ [](fontPc = "done" => fontLoaded)
    /\ [][LoadFontStep => UNCHANGED uiVars]_vars
    /\ []GenerateButtonEnabled

\* The fetch was rejected, nothing was stored, and the export button of a
\* non-empty chart is enabled.
C8_Witness ==
    /\ fontPc = "done"
    /\ ~fontStored
    /\ fontLoaded
    /\ Len(horaChart) > 0
    /\ PdfButtonEnabled

----------------------------------------------------------------------------
(* Claims about the row list and its staleness, under Spec                 *)

\* Row r carries label, sign and degree string as given, and the hora sign
\* of that sign and of that degree string parsed.
RowCarries(r, label, rashi, degree) ==
    /\ r.planetName = label
    /\ r.rashi = rashi
    /\ r.degree = degree
    /\ r.horaRashi = calculateHoraPlacement(rashi, parseFloat(OrZero(degree)))

\* What C11 says of the chart after a generateHoraChart step, in terms of
\* the form before it: the ascendant row, if any, is first, and the other
\* rows are the complete planet entries in their order in planetPositions.
C11_Post ==
    LET off == IF lagna.rashi # "" THEN 1 ELSE 0
        n == Len(horaChart') - off
        complete == { i \in 1..Len(planetPositions) :
                        planetPositions[i].planetName # ""
                          /\ planetPositions[i].rashi # "" }
    IN  /\ n >= 0
        /\ off = 1 => RowCarries(horaChart'[1], LagnaLabel, lagna.rashi, lagna.degree)
        /\ \E f \in [1..n -> 1..Len(planetPositions)] :
              /\ \A a, b \in 1..n : a < b => f[a] < f[b]
              /\ { f[a] : a \in 1..n } = complete
              /\ \A a \in 1..n :
                    RowCarries(horaChart'[off + a],
                               planetPositions[f[a]].planetName,
                               planetPositions[f[a]].rashi,
                               planetPositions[f[a]].degree)

\* C11: generateHoraChart yields the ascendant row first, when present, then
\* the complete planet entries in the order of planetPositions, each row with
\* the entry's label, sign and degree string unchanged and horaRashi =
\* calculateHoraPlacement(row sign, parsed row degree); every row of every
\* reachable state is consistent in this way, and adding a planet, editing a
\* planet or the ascendant and selecting a row leave horaChart unchanged.
C11_OrderedConsistentRows ==
    /\ [][generateHoraChart => C11_Post]_vars
    /\ [](\A i \in 1..Len(horaChart) :
            RowCarries(horaChart[i], horaChart[i].planetName,
                       horaChart[i].rashi, horaChart[i].degree))
    /\ [][((\E value \in SignInputs : SetLagnaRashi(value))
            \/ (\E value \in DegreeInputs : SetLagnaDegree(value))
            \/ addPlanetInput
            \/ EditPlanet
            \/ (\E index \in 1..Len(horaChart) : SelectRow(index)))
          => horaChart' = horaChart]_vars

\* The chart holds the ascendant row followed by a planet row, and the
\* ascendant's sign was edited afterwards: the chart still shows the old one.
C11_Witness ==
    /\ Len(horaChart) = 2
    /\ horaChart[1].planetName = LagnaLabel
    /\ horaChart[2].planetName = planetPositions[1].planetName
    /\ horaChart[2].rashi = planetPositions[1].rashi
    /\ lagna.rashi # ""
    /\ lagna.rashi # horaChart[1].rashi

----------------------------------------------------------------------------
(* Claim about the frame of form editing, under Spec                       *)

PlanetFields == {"planetName", "rashi", "degree"}

\* The values the handlers of a field are called with.
FieldInputs(field) ==
    CASE field = "planetName" -> PlanetInputs
      [] field = "rashi" -> SignInputs
      [] field = "degree" -> DegreeInputs

EmptyEntry == [planetName |-> "", rashi |-> "", degree |-> <<>>]

\* What C12 says of a step of addPlanetInput.
C12_AddPost ==
    /\ Len(planetPositions') = Len(planetPositions) + 1
    /\ planetPositions'[Len(planetPositions')] = EmptyEntry
    /\ \A i \in 1..Len(planetPositions) : planetPositions'[i] = planetPositions[i]
    /\ lagna' = lagna
    /\ selectedHoraRashi' = selectedHoraRashi

\* What C12 says of a step of updatePlanetInput(index, field, value).
C12_UpdatePost(index, field, value) ==
    /\ Len(planetPositions') = Len(planetPositions)
    /\ planetPositions'[index][field] = value
    /\ \A g \in PlanetFields \ {field} :
          planetPositions'[index][g] = planetPositions[index][g]
    /\ \A i \in (1..Len(planetPositions)) \ {index} :
          planetPositions'[i] = planetPositions[i]
    /\ lagna' = lagna
    /\ selectedHoraRashi' = selectedHoraRashi

\* C12: addPlanetInput appends exactly one empty entry and leaves the
\* existing entries as they are; updatePlanetInput(index, field, value) for
\* an existing index changes that field of that entry only, leaving the
\* length of the list, every other entry, the other fields of the entry,
\* lagna and selectedHoraRashi as they are; the planet list never shrinks.
C12_EditsAddressedEntryOnly ==
    /\ [][addPlanetInput => C12_AddPost]_vars
    /\ [][\A index \in 1..Len(planetPositions) :
            \A field \in PlanetFields :
              \A value \in FieldInputs(field) :
                updatePlanetInput(index, field, value)
                  => C12_UpdatePost(index, field, value)]_vars
    /\ [][Len(planetPositions') >= Len(planetPositions)]_vars

\* The first entry is complete with a degree, and the second, added after
\* it, has had its sign set alone.
C12_Witness ==
    /\ Len(planetPositions) = 2
    /\ planetPositions[1].planetName # ""
    /\ planetPositions[1].rashi # ""
    /\ planetPositions[1].degree # <<>>
    /\ planetPositions[2].planetName = ""
    /\ planetPositions[2].rashi # ""
    /\ planetPositions[2].degree = <<>>

====
